---- MODULE Spec2Model ----
(***************************************************************************)
(* A model of the Wordle game of this repository: the game logic of        *)
(* assets/scripts/game.js (word source, guess evaluator, session state)    *)
(* and the key handling of main.js (add letter, remove letter, submit).    *)
(*                                                                         *)
(* Strings are sequences of one-character strings; a JavaScript index i    *)
(* is the TLA+ index i + 1.  The counters currentRow and currentCol keep   *)
(* their JavaScript (0-based) values.                                      *)
(***************************************************************************)
EXTENDS Integers, Sequences, FiniteSets, TLC

\* gameConfig
Rows == 6
Cols == 5
WordLength == 5

\* How many of TypedWords the player may type.
NumTyped == 3
\* How many of EvalAlphabet the evaluator's inputs are drawn from.
EvalLetters == 3

---------------------------------------------------------------------------
\* Characters and strings

UpperCase == <<"A", "B", "C", "D", "E", "F", "G", "H", "I", "J", "K", "L", "M",
               "N", "O", "P", "Q", "R", "S", "T", "U", "V", "W", "X", "Y", "Z">>
LowerCase == <<"a", "b", "c", "d", "e", "f", "g", "h", "i", "j", "k", "l", "m",
               "n", "o", "p", "q", "r", "s", "t", "u", "v", "w", "x", "y", "z">>

Letters == {UpperCase[i] : i \in 1..26} \cup {LowerCase[i] : i \in 1..26}

\* String.prototype.toLowerCase / toUpperCase, one character at a time.
LowerChar(c) ==
    IF \E i \in 1..26 : UpperCase[i] = c
    THEN LowerCase[CHOOSE i \in 1..26 : UpperCase[i] = c]
    ELSE c

UpperChar(c) ==
    IF \E i \in 1..26 : LowerCase[i] = c
    THEN UpperCase[CHOOSE i \in 1..26 : LowerCase[i] = c]
    ELSE c

toLowerCase(s) == [i \in 1..Len(s) |-> LowerChar(s[i])]
toUpperCase(s) == [i \in 1..Len(s) |-> UpperChar(s[i])]

\* Array.prototype.includes and indexOf (0 stands for JavaScript's -1).
Includes(arr, x) == \E i \in 1..Len(arr) : arr[i] = x

IndexOf(arr, x) ==
    IF Includes(arr, x)
    THEN CHOOSE i \in 1..Len(arr) : arr[i] = x /\ \A j \in 1..(i - 1) : arr[j] # x
    ELSE 0

\* The empty grid slot, and a row joined into a string: an empty slot adds
\* no character.
Empty == ""

RECURSIVE Join(_)
Join(row) ==
    IF row = <<>> THEN <<>>
    ELSE IF Head(row) = Empty THEN Join(Tail(row))
    ELSE <<Head(row)>> \o Join(Tail(row))

---------------------------------------------------------------------------
\* game.js: the word source

apple == <<"a", "p", "p", "l", "e">>
grape == <<"g", "r", "a", "p", "e">>
crane == <<"c", "r", "a", "n", "e">>
papal == <<"p", "a", "p", "a", "l">>
eerie == <<"e", "e", "r", "i", "e">>
arena == <<"a", "r", "e", "n", "a">>

fallbackWords ==
    << apple,
       grape,
       <<"v", "i", "t", "a", "l">>,
       <<"s", "p", "i", "c", "e">>,
       <<"q", "u", "i", "c", "k">>,
       <<"p", "r", "o", "x", "y">>,
       <<"f", "l", "a", "m", "e">>,
       <<"s", "e", "r", "v", "e">>,
       crane,
       <<"b", "l", "a", "z", "e">> >>

\* What the remote endpoint may do.  kind "networkError": fetch rejects;
\* "badBody": response.json() rejects; "json": the body parses to data.
\* A parsed body is an array (isArray, with its items) or some other value;
\* an item is a string (its chars) or a value without toLowerCase.
StringItem(s) == [isString |-> TRUE, chars |-> s]
OtherItem == [isString |-> FALSE, chars |-> <<>>]
JsonArray(items) == [kind |-> "json", isArray |-> TRUE, items |-> items]

Responses ==
    { [kind |-> "networkError", isArray |-> FALSE, items |-> <<>>],
      [kind |-> "badBody", isArray |-> FALSE, items |-> <<>>],
      [kind |-> "json", isArray |-> FALSE, items |-> <<>>],
      JsonArray(<<>>),
      JsonArray(<<OtherItem>>),
      JsonArray(<<StringItem(<<"A", "P", "P", "L", "E">>)>>),
      JsonArray(<<StringItem(papal), StringItem(apple)>>),
      JsonArray(<<StringItem(<<>>)>>),
      JsonArray(<<StringItem(<<"p", "e", "a">>)>>) }

\* The endpoint fails to give a word: a transport error, a body that does
\* not parse, a body that is no list, an empty list, or a list whose first
\* element is no string.
RemoteFailed(resp) ==
    \/ resp.kind \in {"networkError", "badBody"}
    \/ ~resp.isArray
    \/ resp.items = <<>>
    \/ ~resp.items[1].isString

\* Mutant: the fallback index is rounded up, so it may fall past the end of
\* the list (undefined, here the empty word).
getRandomWord_IndexRoundedUp(resp, rnd) ==
    IF resp.kind = "json" /\ resp.isArray /\ Len(resp.items) > 0
       /\ resp.items[1].isString
    THEN toLowerCase(resp.items[1].chars)
    ELSE IF rnd + 2 <= Len(fallbackWords) THEN fallbackWords[rnd + 2] ELSE <<>>

\* getRandomWord: resp is what the endpoint does, rnd the value of
\* Math.floor(Math.random() * fallbackWords.length).  data[0].toLowerCase()
\* throws for an item that is no string; the catch absorbs every throw.
getRandomWord(resp, rnd) ==
    IF resp.kind = "json" /\ resp.isArray /\ Len(resp.items) > 0
       /\ resp.items[1].isString
    THEN toLowerCase(resp.items[1].chars)
    ELSE fallbackWords[rnd + 1]

\* Mutant: every word is taken to be valid.
isWordValid_AcceptsAll(word) == TRUE

isWordValid(word) == Includes(fallbackWords, toLowerCase(word))

---------------------------------------------------------------------------
\* game.js: the guess evaluator

\* null, which marks a consumed letter, and the hole of a sparse array.
Null == "null"
Hole == "undefined"

Max(a, b) == IF a >= b THEN a ELSE b

\* arr[i] for a 0-based i, undefined beyond the end.
At(arr, i) == IF i + 1 <= Len(arr) THEN arr[i + 1] ELSE Hole

\* arr[i] = v for a 0-based i; assigning beyond the end grows the array.
SetAt(arr, i, v) ==
    [j \in 1..Max(Len(arr), i + 1) |->
        IF j = i + 1 THEN v ELSE IF j <= Len(arr) THEN arr[j] ELSE Hole]

\* Mutant: the first loop stops one position early.
RECURSIVE FirstPass_StopsEarly(_, _)
FirstPass_StopsEarly(st, i) ==
    IF i >= Len(st.guessLetters) - 1 THEN st
    ELSE IF At(st.guessLetters, i) = At(st.targetLetters, i)
    THEN FirstPass_StopsEarly([result |-> SetAt(st.result, i, "correct"),
                               targetLetters |-> SetAt(st.targetLetters, i, Null),
                               guessLetters |-> SetAt(st.guessLetters, i, Null)], i + 1)
    ELSE FirstPass_StopsEarly(st, i + 1)

\* Mutant: the first loop marks a match but leaves both letters in place.
RECURSIVE FirstPass_KeepsLetters(_, _)
FirstPass_KeepsLetters(st, i) ==
    IF i >= Len(st.guessLetters) THEN st
    ELSE IF At(st.guessLetters, i) = At(st.targetLetters, i)
    THEN FirstPass_KeepsLetters([result |-> SetAt(st.result, i, "correct"),
                                 targetLetters |-> st.targetLetters,
                                 guessLetters |-> st.guessLetters], i + 1)
    ELSE FirstPass_KeepsLetters(st, i + 1)

\* First pass: mark correct letters and remove them from consideration.
RECURSIVE FirstPass(_, _)
FirstPass(st, i) ==
    IF i >= Len(st.guessLetters) THEN st
    ELSE IF At(st.guessLetters, i) = At(st.targetLetters, i)
    THEN FirstPass([result |-> SetAt(st.result, i, "correct"),
                    targetLetters |-> SetAt(st.targetLetters, i, Null),
                    guessLetters |-> SetAt(st.guessLetters, i, Null)], i + 1)
    ELSE FirstPass(st, i + 1)

\* Mutant: the second loop does not remove the occurrence it matched.
RECURSIVE SecondPass_KeepsOccurrence(_, _)
SecondPass_KeepsOccurrence(st, i) ==
    IF i >= Len(st.guessLetters) THEN st
    ELSE IF At(st.guessLetters, i) # Null
            /\ Includes(st.targetLetters, At(st.guessLetters, i))
    THEN SecondPass_KeepsOccurrence([result |-> SetAt(st.result, i, "misplaced"),
                                     targetLetters |-> st.targetLetters,
                                     guessLetters |-> st.guessLetters], i + 1)
    ELSE SecondPass_KeepsOccurrence(st, i + 1)

\* Mutant: the second loop does not ask whether the target still holds the
\* letter; indexOf gives -1 for an absent letter and nothing is removed.
RECURSIVE SecondPass_MarksAbsent(_, _)
SecondPass_MarksAbsent(st, i) ==
    IF i >= Len(st.guessLetters) THEN st
    ELSE IF At(st.guessLetters, i) # Null
    THEN SecondPass_MarksAbsent(
             [result |-> SetAt(st.result, i, "misplaced"),
              targetLetters |->
                  IF Includes(st.targetLetters, At(st.guessLetters, i))
                  THEN SetAt(st.targetLetters,
                             IndexOf(st.targetLetters, At(st.guessLetters, i)) - 1,
                             Null)
                  ELSE st.targetLetters,
              guessLetters |-> st.guessLetters], i + 1)
    ELSE SecondPass_MarksAbsent(st, i + 1)

\* Second pass: mark misplaced letters, removing the first occurrence.
RECURSIVE SecondPass(_, _)
SecondPass(st, i) ==
    IF i >= Len(st.guessLetters) THEN st
    ELSE IF At(st.guessLetters, i) # Null
            /\ Includes(st.targetLetters, At(st.guessLetters, i))
    THEN SecondPass([result |-> SetAt(st.result, i, "misplaced"),
                     targetLetters |->
                         SetAt(st.targetLetters,
                               IndexOf(st.targetLetters, At(st.guessLetters, i)) - 1,
                               Null),
                     guessLetters |-> st.guessLetters], i + 1)
    ELSE SecondPass(st, i + 1)

\* Mutant: the first loop is left out.
checkGuess_SecondPassOnly(guess, target) ==
    SecondPass([result |-> [i \in 1..WordLength |-> "wrong"],
                targetLetters |-> target,
                guessLetters |-> guess], 0).result

checkGuess(guess, target) ==
    SecondPass(FirstPass([result |-> [i \in 1..WordLength |-> "wrong"],
                          targetLetters |-> target,
                          guessLetters |-> guess], 0), 0).result

---------------------------------------------------------------------------
\* The state

VARIABLES
    targetWord,   \* gameState.targetWord
    currentRow,   \* gameState.currentRow
    currentCol,   \* gameState.currentCol
    grid,         \* gameState.grid
    pc,           \* where the page's scripts stand
    listening,    \* handleKeydown is registered for keydown
    pending,      \* the locals of a submitGuess suspended at its await
    revealed,     \* per row, the status classes of its cells (<<>>: none)
    shake,        \* the cells the latest handler gave the shake class
    message,      \* what the latest handler passed to showMessage
    evalGuess,    \* the latest call of checkGuess: its guess,
    evalTarget,   \* its target,
    evalResult,   \* and what it returned (<<>>: not returned yet)
    fetches,      \* how often fetch(endpoint) has been called
    remoteResult, \* what the endpoint did: "none" yet, "failed" or "word"
    evaluations   \* how often submitGuess has called checkGuess

gameVars == <<targetWord, currentRow, currentCol, grid>>
pageVars == <<pc, listening, pending, revealed, shake, message>>
evalVars == <<evalGuess, evalTarget, evalResult>>
callVars == <<fetches, remoteResult, evaluations>>
vars == <<targetWord, currentRow, currentCol, grid, pc, listening, pending,
          revealed, shake, message, evalGuess, evalTarget, evalResult,
          fetches, remoteResult, evaluations>>

NoPending == [row |-> 0, guess |-> <<>>]
NoMessage == [text |-> "", word |-> <<>>]
InvalidMessage == [text |-> "Not a valid word", word |-> <<>>]
WonMessage == [text |-> "You got it!", word |-> <<>>]
LostMessage(target) ==
    [text |-> "Out of attempts! The word was", word |-> toUpperCase(target)]

\* The player.  The letters pressed spell, in either case, the first
\* NumTyped words of TypedWords: a fallback word, a second one, and a word
\* the remote endpoint may give that is no fallback word.  A word may be
\* abandoned with Backspace or submitted with Enter at any point, and keys
\* handleKeydown has no branch for may be pressed at any time.
TypedWords == <<apple, grape, papal, crane, eerie>>
Typed == {TypedWords[i] : i \in 1..NumTyped}
OtherKeys == {"Tab", "1"}

\* What the current row spells (nothing before the grid exists or after the
\* last row).
RowText ==
    IF currentRow + 1 <= Len(grid) THEN Join(grid[currentRow + 1]) ELSE <<>>

\* The letters that continue the row towards a typed word; where none does
\* (the row is full), every letter of the typed words.
Continuations ==
    LET text == RowText
        n == Len(text)
    IN  {w[n + 1] : w \in {v \in Typed : Len(v) > n /\ SubSeq(v, 1, n) = text}}

TypedLetters == UNION {{w[i] : i \in 1..Len(w)} : w \in Typed}

LetterKeys ==
    LET lower == IF Continuations # {} THEN Continuations ELSE TypedLetters
    IN  lower \cup {UpperChar(c) : c \in lower}

AllKeys == TypedLetters \cup OtherKeys \cup {"Backspace", "Enter"}

isLetter(key) == key \in Letters

\* The state once the scripts are loaded, before DOMContentLoaded.
InitGame ==
    /\ targetWord = <<>>
    /\ currentRow = 0
    /\ currentCol = 0
    /\ grid = <<>>
    /\ pc = "loading"
    /\ listening = FALSE
    /\ pending = NoPending
    /\ revealed = [r \in 1..Rows |-> <<>>]
    /\ shake = {}
    /\ message = NoMessage
    /\ fetches = 0
    /\ remoteResult = "none"
    /\ evaluations = 0

NoEval ==
    /\ evalGuess = <<>>
    /\ evalTarget = <<>>
    /\ evalResult = <<>>

Init == InitGame /\ NoEval

---------------------------------------------------------------------------
\* main.js: page load

\* Mutant: handleKeydown is registered before initialiseGame is awaited.
DOMContentLoaded_ListensFirst(hasGrid) ==
    /\ pc = "loading"
    /\ pc' = IF hasGrid THEN "fetching" ELSE "noGrid"
    /\ listening' = hasGrid
    /\ fetches' = IF hasGrid THEN fetches + 1 ELSE fetches
    /\ UNCHANGED <<gameVars, pending, revealed, shake, message, evalVars,
                   remoteResult, evaluations>>

\* The DOMContentLoaded handler up to its await: without the grid element
\* it returns; with it, it builds the grid and calls initialiseGame, which
\* suspends in getRandomWord's fetch.
DOMContentLoaded(hasGrid) ==
    /\ pc = "loading"
    /\ pc' = IF hasGrid THEN "fetching" ELSE "noGrid"
    /\ fetches' = IF hasGrid THEN fetches + 1 ELSE fetches
    /\ UNCHANGED <<gameVars, listening, pending, revealed, shake, message, evalVars,
                   remoteResult, evaluations>>

\* The fetch settles: getRandomWord returns, initialiseGame resets the
\* state, and the DOMContentLoaded handler registers handleKeydown.
initialiseGame(resp, rnd) ==
    /\ pc = "fetching"
    /\ targetWord' = getRandomWord(resp, rnd)
    /\ currentRow' = 0
    /\ currentCol' = 0
    /\ grid' = [r \in 1..Rows |-> [c \in 1..Cols |-> Empty]]
    /\ listening' = TRUE
    /\ pc' = "idle"
    /\ remoteResult' = IF RemoteFailed(resp) THEN "failed" ELSE "word"
    /\ UNCHANGED <<pending, revealed, shake, message, evalVars, fetches, evaluations>>

---------------------------------------------------------------------------
\* main.js: key handling

\* Mutant: a keydown event is dispatched while the continuation of an
\* earlier handler still waits (as if its await spanned a task).
Dispatched_DuringAwait == listening

\* A keydown event is dispatched to handleKeydown when it is registered and
\* no continuation of an earlier handler is waiting in the microtask queue:
\* the await of submitGuess is on a promise that is already resolved, so it
\* resumes before the next event; the fetch of getRandomWord is not.
Dispatched == listening /\ pc # "validating"

\* grid[row] is an array; where it is undefined, an access to one of its
\* slots throws and the handler ends there.
rowExists(row) == row + 1 <= Len(grid)

\* Mutant: the guard lets one letter more into the row.
addLetter_OneMore(letter) ==
    /\ Dispatched
    /\ isLetter(letter)
    /\ IF currentCol > Cols \/ currentRow >= Rows \/ ~rowExists(currentRow)
       THEN UNCHANGED <<grid, currentCol>>
       ELSE /\ grid' = [grid EXCEPT ![currentRow + 1] = SetAt(@, currentCol, LowerChar(letter))]
            /\ currentCol' = currentCol + 1
    /\ shake' = {}
    /\ message' = NoMessage
    /\ UNCHANGED <<targetWord, currentRow, pc, listening, pending, revealed, evalVars, callVars>>

\* Mutant: the letter is stored as it was typed.
addLetter_KeepsCase(letter) ==
    /\ Dispatched
    /\ isLetter(letter)
    /\ IF currentCol >= Cols \/ currentRow >= Rows \/ ~rowExists(currentRow)
       THEN UNCHANGED <<grid, currentCol>>
       ELSE /\ grid' = [grid EXCEPT ![currentRow + 1] = SetAt(@, currentCol, letter)]
            /\ currentCol' = currentCol + 1
    /\ shake' = {}
    /\ message' = NoMessage
    /\ UNCHANGED <<targetWord, currentRow, pc, listening, pending, revealed, evalVars, callVars>>

addLetter(letter) ==
    /\ Dispatched
    /\ isLetter(letter)
    /\ IF currentCol >= Cols \/ currentRow >= Rows \/ ~rowExists(currentRow)
       THEN UNCHANGED <<grid, currentCol>>
       ELSE /\ grid' = [grid EXCEPT ![currentRow + 1] = SetAt(@, currentCol, LowerChar(letter))]
            /\ currentCol' = currentCol + 1
    /\ shake' = {}
    /\ message' = NoMessage
    /\ UNCHANGED <<targetWord, currentRow, pc, listening, pending, revealed, evalVars, callVars>>

\* Mutant: the slot is cleared at the cursor's old position.
removeLetter_ClearsOldCol ==
    /\ Dispatched
    /\ IF currentCol = 0
       THEN UNCHANGED <<grid, currentCol>>
       ELSE /\ currentCol' = currentCol - 1
            /\ grid' = [grid EXCEPT ![currentRow + 1] = SetAt(@, currentCol, Empty)]
    /\ shake' = {}
    /\ message' = NoMessage
    /\ UNCHANGED <<targetWord, currentRow, pc, listening, pending, revealed, evalVars, callVars>>

removeLetter ==
    /\ Dispatched
    /\ IF currentCol = 0
       THEN UNCHANGED <<grid, currentCol>>
       ELSE /\ currentCol' = currentCol - 1
            /\ grid' = [grid EXCEPT ![currentRow + 1] = SetAt(@, currentCol - 1, Empty)]
    /\ shake' = {}
    /\ message' = NoMessage
    /\ UNCHANGED <<targetWord, currentRow, pc, listening, pending, revealed, evalVars, callVars>>

\* A key handleKeydown has no branch for.
otherKey(key) ==
    /\ Dispatched
    /\ ~isLetter(key) /\ key # "Backspace" /\ key # "Enter"
    /\ shake' = {}
    /\ message' = NoMessage
    /\ UNCHANGED <<gameVars, pc, listening, pending, revealed, evalVars, callVars>>

\* A key pressed while handleKeydown is not registered.
unheardKey(key) ==
    /\ ~listening
    /\ UNCHANGED vars

\* Mutant: every cell of the row shakes, filled or not.
shakeMissingCells_WholeRow(row) == {<<row, c>> : c \in 0..(Cols - 1)}

\* The cells of a row that shake: its empty ones, or all of them.
shakeMissingCells(row) ==
    {<<row, c>> : c \in {k \in 0..(Cols - 1) : At(grid[row + 1], k) \in {Empty, Hole}}}

shakeRow(row) == {<<row, c>> : c \in 0..(Cols - 1)}

\* submitGuess up to its await: an incomplete row is shaken and the handler
\* returns; a complete row is joined and handed to isWordValid.
submitGuess ==
    /\ Dispatched
    /\ rowExists(currentRow)
    /\ IF currentCol < Cols
       THEN /\ shake' = shakeMissingCells(currentRow)
            /\ UNCHANGED <<pc, pending>>
       ELSE /\ shake' = {}
            /\ pending' = [row |-> currentRow, guess |-> Join(grid[currentRow + 1])]
            /\ pc' = "validating"
    /\ message' = NoMessage
    /\ UNCHANGED <<gameVars, listening, revealed, evalVars, callVars>>

\* guess === window.gameState.targetWord
guessMatches(guess, target) == guess = target

\* Mutant: the game is over one row early.
outOfAttempts_OneFewer(row) == row >= Rows - 1

\* Mutant: the last row is taken to be one further down.
outOfAttempts_OneMore(row) == row > Rows

\* window.gameState.currentRow >= window.gameConfig.rows
outOfAttempts(row) == row >= Rows

\* Mutant: the handler stays registered when the game ends.
removeEventListener_Forgotten == UNCHANGED listening

\* document.removeEventListener('keydown', handleKeydown)
removeEventListener == listening' = FALSE

revealAttemptResult(row, results) ==
    [revealed EXCEPT ![row + 1] = [c \in 1..Cols |-> At(results, c - 1)]]

\* Mutant: the row is advanced and tested for out-of-attempts before the
\* guess is compared with the target.
submitGuessResume_LostFirst ==
    /\ pc = "validating"
    /\ pc' = "idle"
    /\ pending' = NoPending
    /\ UNCHANGED <<fetches, remoteResult>>
    /\ IF ~isWordValid(pending.guess)
       THEN /\ shake' = shakeRow(pending.row)
            /\ message' = InvalidMessage
            /\ UNCHANGED <<gameVars, listening, revealed, evalVars, evaluations>>
       ELSE /\ evalGuess' = pending.guess
            /\ evalTarget' = targetWord
            /\ evalResult' = checkGuess(pending.guess, targetWord)
            /\ evaluations' = evaluations + 1
            /\ revealed' = revealAttemptResult(pending.row, evalResult')
            /\ shake' = {}
            /\ IF outOfAttempts(currentRow + 1)
               THEN /\ currentRow' = currentRow + 1
                    /\ currentCol' = 0
                    /\ message' = LostMessage(targetWord)
                    /\ removeEventListener
                    /\ UNCHANGED <<targetWord, grid>>
               ELSE IF guessMatches(pending.guess, targetWord)
               THEN /\ message' = WonMessage
                    /\ removeEventListener
                    /\ UNCHANGED gameVars
               ELSE /\ currentRow' = currentRow + 1
                    /\ currentCol' = 0
                    /\ message' = NoMessage
                    /\ UNCHANGED <<targetWord, grid, listening>>

\* submitGuess from its await on: the verdict of isWordValid, the
\* evaluation, and the end of the game or the move to the next row.
submitGuessResume ==
    /\ pc = "validating"
    /\ pc' = "idle"
    /\ pending' = NoPending
    /\ UNCHANGED <<fetches, remoteResult>>
    /\ IF ~isWordValid(pending.guess)
       THEN /\ shake' = shakeRow(pending.row)
            /\ message' = InvalidMessage
            /\ UNCHANGED <<gameVars, listening, revealed, evalVars, evaluations>>
       ELSE /\ evalGuess' = pending.guess
            /\ evalTarget' = targetWord
            /\ evalResult' = checkGuess(pending.guess, targetWord)
            /\ evaluations' = evaluations + 1
            /\ revealed' = revealAttemptResult(pending.row, evalResult')
            /\ shake' = {}
            /\ IF guessMatches(pending.guess, targetWord)
               THEN /\ message' = WonMessage
                    /\ removeEventListener
                    /\ UNCHANGED gameVars
               ELSE /\ currentRow' = currentRow + 1
                    /\ currentCol' = 0
                    /\ IF outOfAttempts(currentRow')
                       THEN /\ message' = LostMessage(targetWord)
                            /\ removeEventListener
                       ELSE /\ message' = NoMessage
                            /\ UNCHANGED listening
                    /\ UNCHANGED <<targetWord, grid>>

Next ==
    \/ \E hasGrid \in BOOLEAN : DOMContentLoaded(hasGrid)
    \/ \E resp \in Responses, rnd \in 0..(Len(fallbackWords) - 1) : initialiseGame(resp, rnd)
    \/ \E key \in LetterKeys : addLetter(key)
    \/ removeLetter
    \/ \E key \in OtherKeys : otherKey(key)
    \/ \E key \in AllKeys : unheardKey(key)
    \/ submitGuess
    \/ submitGuessResume

Spec == Init /\ [][Next]_vars

---------------------------------------------------------------------------
\* The evaluator on its own: checkGuess applied to every guess and target
\* of the configured length over the first EvalLetters letters of
\* EvalAlphabet, and to the pairs the specification gives as examples.

EvalAlphabet == <<"a", "e", "r", "n", "s">>
EvalWords == [1..WordLength -> {EvalAlphabet[i] : i \in 1..EvalLetters}]

ExamplePairs == {<<grape, crane>>, <<eerie, arena>>, <<crane, crane>>}

InitEval ==
    /\ InitGame
    /\ \E pair \in (EvalWords \X EvalWords) \cup ExamplePairs :
           /\ evalGuess = pair[1]
           /\ evalTarget = pair[2]
    /\ evalResult = <<>>

Evaluate ==
    /\ evalResult = <<>>
    /\ evalResult' = checkGuess(evalGuess, evalTarget)
    /\ UNCHANGED <<gameVars, pageVars, evalGuess, evalTarget, callVars>>

NextEval == Evaluate

SpecEval == InitEval /\ [][NextEval]_vars

---------------------------------------------------------------------------
\* Properties of the evaluator

Statuses == {"correct", "misplaced", "wrong"}
Positions == 1..WordLength
Min(a, b) == IF a <= b THEN a ELSE b
CountIn(w, L) == Cardinality({i \in 1..Len(w) : w[i] = L})
LettersOf(w) == {w[i] : i \in 1..Len(w)}

\* checkGuess has returned for a guess and a target of the configured length.
Evaluated ==
    /\ evalResult # <<>>
    /\ Len(evalGuess) = WordLength
    /\ Len(evalTarget) = WordLength

\* C1: for a guess and a target of the configured length checkGuess returns
\* one status per position, each of correct, misplaced or wrong; position i
\* is correct exactly when guess[i] = target[i]; so there are as many
\* correct statuses as positional matches.
C1_OneStatusPerPosition ==
    Evaluated =>
        /\ Len(evalResult) = WordLength
        /\ \A i \in Positions : evalResult[i] \in Statuses
        /\ \A i \in Positions : evalResult[i] = "correct" <=> evalGuess[i] = evalTarget[i]
        /\ Cardinality({i \in Positions : evalResult[i] = "correct"})
             = Cardinality({i \in Positions : evalGuess[i] = evalTarget[i]})

\* A result with a correct, a misplaced and a wrong position.
C1_Witness ==
    /\ Evaluated
    /\ \E i, j, k \in Positions :
          /\ evalResult[i] = "correct"
          /\ evalResult[j] = "misplaced"
          /\ evalResult[k] = "wrong"

\* C2: for every letter L, the guess positions holding L that are marked
\* correct or misplaced number min(occurrences of L in the guess,
\* occurrences of L in the target); and a position is misplaced only if its
\* letter stands at another target position that is no positional match.
C2_MarksBoundedByOccurrences ==
    Evaluated =>
        /\ \A L \in LettersOf(evalGuess) \cup LettersOf(evalTarget) :
              Cardinality({i \in Positions :
                              /\ evalGuess[i] = L
                              /\ evalResult[i] \in {"correct", "misplaced"}})
                = Min(CountIn(evalGuess, L), CountIn(evalTarget, L))
        /\ \A i \in Positions :
              evalResult[i] = "misplaced" =>
                  \E j \in Positions \ {i} :
                      /\ evalTarget[j] = evalGuess[i]
                      /\ evalGuess[j] # evalTarget[j]

\* A letter the guess repeats more often than the target holds it: one of
\* its positions is marked, another is wrong.
C2_Witness ==
    /\ Evaluated
    /\ \E i, j \in Positions :
          /\ i # j
          /\ evalGuess[i] = evalGuess[j]
          /\ evalResult[i] = "misplaced"
          /\ evalResult[j] = "wrong"

\* C3 as the specification states it: "grape" against "crane" yields
\* wrong, correct, wrong, misplaced, correct.
C3_AsStated ==
    (evalGuess = grape /\ evalTarget = crane /\ evalResult # <<>>) =>
        evalResult = <<"wrong", "correct", "wrong", "misplaced", "correct">>

\* C3, amended: "grape" against "crane" yields wrong, correct, correct,
\* wrong, correct (the a of both words stands at position 2, and crane has
\* no p).
C3_GrapeAgainstCrane ==
    (evalGuess = grape /\ evalTarget = crane /\ evalResult # <<>>) =>
        evalResult = <<"wrong", "correct", "correct", "wrong", "correct">>

C3_Witness == evalGuess = grape /\ evalTarget = crane /\ evalResult # <<>>

---------------------------------------------------------------------------
\* Properties of the session

Acceptable(word) == \E i \in 1..Len(fallbackWords) : fallbackWords[i] = word
Initialised == pc \in {"idle", "validating"}
Won == message = WonMessage
Lost == message = LostMessage(targetWord)
Filled(row) == Len(row) = Cols /\ \A c \in 1..Cols : row[c] \notin {Empty, Hole}

\* A step in which a suspended submitGuess finishes.
SubmitFinishes == pc = "validating" /\ pc' = "idle"

\* A step in which Enter is handled on an incomplete row.
SubmitIncomplete == submitGuess /\ currentCol < Cols

\* C4: an accepted submit on attempt k wins when the guess is the target;
\* otherwise, with k + 1 = Rows, it loses and shows the target; otherwise the
\* attempt index becomes k + 1 and the cursor 0, row k keeps its letters and
\* the session goes on accepting keys.
C4_AcceptedSubmitOutcome ==
    [][(SubmitFinishes /\ currentCol = Cols /\ Acceptable(pending.guess)) =>
          IF pending.guess = targetWord
          THEN Won' /\ ~listening' /\ ~Lost'
          ELSE IF currentRow + 1 = Rows
          THEN /\ Lost' /\ ~listening' /\ ~Won'
               /\ message'.word = toUpperCase(targetWord)
          ELSE /\ currentRow' = currentRow + 1
               /\ currentCol' = 0
               /\ grid' = grid
               /\ Join(grid'[currentRow + 1]) = pending.guess
               /\ listening' /\ pc' = "idle"
               /\ ~Won' /\ ~Lost']_vars

\* The session lost on the last row.
C4_Witness == Lost /\ ~listening /\ currentRow = Rows /\ currentCol = 0

\* C5 as stated: submitting the target word on the last attempt ends the
\* session as won, never as lost, and leaves the attempt index at Rows - 1.
C5_AsStated ==
    [][(SubmitFinishes /\ pending.row = Rows - 1 /\ pending.guess = targetWord) =>
          /\ Won' /\ ~listening'
          /\ ~Lost'
          /\ currentRow' = Rows - 1]_vars

\* C5, amended: submitting the target word on the last attempt never ends
\* the session as lost and leaves the attempt index at Rows - 1; it ends the
\* session as won when the target is a word of the fallback list, and is
\* rejected as an invalid word, the session going on, when it is not.
C5_TargetOnLastAttempt ==
    [][(SubmitFinishes /\ pending.row = Rows - 1 /\ pending.guess = targetWord) =>
          /\ ~Lost'
          /\ currentRow' = Rows - 1
          /\ IF Acceptable(targetWord)
             THEN Won' /\ ~listening'
             ELSE ~Won' /\ listening' /\ message' = InvalidMessage]_vars

\* The session won on the last row.
C5_Witness ==
    /\ Won /\ ~listening
    /\ currentRow = Rows - 1
    /\ Join(grid[Rows]) = targetWord

\* C6: a complete row that is no acceptable word leaves the target, grid,
\* cursor and attempt index as they are, evaluates and reveals nothing, and
\* is answered by the invalid-word message and the shake of the whole row;
\* an incomplete row is never answered by that message.
C6_InvalidWordRejected ==
    [][/\ (SubmitFinishes /\ ~Acceptable(pending.guess)) =>
             /\ UNCHANGED <<gameVars, revealed, evalVars, listening>>
             /\ message' = InvalidMessage
             /\ shake' = {<<currentRow, c>> : c \in 0..(Cols - 1)}
       /\ SubmitIncomplete => message' # InvalidMessage]_vars

\* A complete row just rejected as no valid word.
C6_Witness ==
    /\ message = InvalidMessage
    /\ pc = "idle" /\ listening
    /\ currentCol = Cols
    /\ ~Acceptable(Join(grid[currentRow + 1]))
    /\ revealed[currentRow + 1] = <<>>

\* C7: Enter on an incomplete row leaves the target, grid, cursor and
\* attempt index as they are, starts no validation and no evaluation, shows
\* no message, and shakes exactly the empty slots of the current row, which
\* are the slots from the cursor on.
C7_IncompleteRowRejected ==
    [][SubmitIncomplete =>
          /\ UNCHANGED <<gameVars, pc, pending, revealed, evalVars, listening>>
          /\ message' = NoMessage
          /\ shake' = {<<currentRow, c>> : c \in currentCol..(Cols - 1)}
          /\ shake' = {cell \in (0..(Rows - 1)) \X (0..(Cols - 1)) :
                          /\ cell[1] = currentRow
                          /\ grid[cell[1] + 1][cell[2] + 1] = Empty}]_vars

\* An incomplete row with some letters, just shaken at its empty slots.
C7_Witness ==
    /\ pc = "idle" /\ listening
    /\ currentCol > 0 /\ currentCol < Cols
    /\ shake = {<<currentRow, c>> : c \in currentCol..(Cols - 1)}

\* C8: once the session is won or lost, no step changes the target, grid,
\* cursor or attempt index, validates or evaluates a guess, or changes what
\* is shown.
C8_WonAndLostAreTerminal ==
    [][(Won \/ Lost) =>
          /\ UNCHANGED <<gameVars, pc, pending, revealed, evalVars>>
          /\ UNCHANGED <<listening, message, shake>>]_vars

\* The session won before the last row, keys no longer heard.
C8_Witness == Won /\ ~listening /\ pc = "idle" /\ currentRow < Rows - 1

\* C9: the cursor stays within 0..Cols and the attempt index within
\* 0..Rows; once the game is initialised every row below the attempt index,
\* and the winning row, has every column filled.
C9_CountersBoundedRowsFilled ==
    /\ currentCol \in 0..Cols
    /\ currentRow \in 0..Rows
    /\ Initialised =>
          /\ \A r \in 0..(Rows - 1) : r < currentRow => Filled(grid[r + 1])
          /\ Won => Filled(grid[currentRow + 1])

\* All rows submitted and the attempt index at its bound.
C9_Witness ==
    /\ Initialised
    /\ currentRow = Rows
    /\ \A r \in 1..Rows : Filled(grid[r])

\* C10: once initialiseGame has completed the target word is non-empty and
\* of the configured length, whatever the remote endpoint did.
C10_TargetHasWordLength ==
    Initialised => (targetWord # <<>> /\ Len(targetWord) = WordLength)

---------------------------------------------------------------------------
\* Properties of the word source and of the page's start

EmptyGrid == [r \in 1..Rows |-> [c \in 1..Cols |-> Empty]]
SubmittedRows == {r \in 0..(Rows - 1) : r < currentRow \/ (r = currentRow /\ Won)}

\* C11: fetch is called at most once, and once when the game is
\* initialised; when the endpoint fails to give a word the game is
\* initialised all the same, with a target word of the fallback list, and
\* nothing is shown to the player.
C11_OneFetchThenFallback ==
    /\ [](/\ fetches <= 1
          /\ Initialised => fetches = 1
          /\ remoteResult # "none" => Initialised
          /\ remoteResult = "failed" => Acceptable(targetWord))
    /\ [][(pc = "fetching" /\ pc' # "fetching") =>
            /\ pc' = "idle" /\ listening'
            /\ remoteResult' \in {"failed", "word"}
            /\ message' = NoMessage /\ shake' = {}
            /\ grid' = EmptyGrid
            /\ fetches' = fetches]_vars

\* The endpoint has failed and the game runs on a fallback word.
C11_Witness ==
    /\ remoteResult = "failed"
    /\ fetches = 1
    /\ listening
    /\ currentCol > 0

\* C12: isWordValid holds of a word exactly when its lower-cased form is in
\* the fallback list; so every guess that was evaluated, every row that was
\* revealed and every submitted row spells a fallback word, also when the
\* target came from the endpoint.
C12_OnlyFallbackWordsSubmitted ==
    /\ \A w \in Typed \cup {toUpperCase(v) : v \in Typed} :
          isWordValid(w) <=> (\E i \in 1..Len(fallbackWords) : fallbackWords[i] = toLowerCase(w))
    /\ pc = "validating" => (isWordValid(pending.guess) <=> Acceptable(pending.guess))
    /\ evaluations > 0 => Acceptable(evalGuess)
    /\ Initialised =>
          /\ \A r \in SubmittedRows : Acceptable(Join(grid[r + 1]))
          /\ \A r \in 0..(Rows - 1) : revealed[r + 1] # <<>> => Acceptable(Join(grid[r + 1]))

\* The target came from the endpoint and is no fallback word; two rows are
\* submitted.
C12_Witness ==
    /\ remoteResult = "word"
    /\ ~Acceptable(targetWord)
    /\ currentRow >= 2
    /\ evaluations >= 2

\* C13: handleKeydown is registered only once initialiseGame has completed,
\* with the target set by getRandomWord and the grid, cursor and attempt
\* index reset; until then no step but that completion changes the game
\* state or what is shown.
C13_NoInputBeforeInitialised ==
    /\ [](listening => (Initialised /\ remoteResult # "none" /\ Len(grid) = Rows))
    /\ [][~Initialised =>
            \/ UNCHANGED <<gameVars, listening, pending, revealed, shake, message,
                           evalVars, remoteResult, evaluations>>
            \/ /\ pc = "fetching" /\ pc' = "idle"
               /\ currentRow' = 0 /\ currentCol' = 0 /\ grid' = EmptyGrid
               /\ remoteResult' # "none"
               /\ listening']_vars

\* The first letter typed, after initialisation.
C13_Witness ==
    /\ Initialised /\ listening
    /\ currentRow = 0 /\ currentCol = 1
    /\ remoteResult # "none"

---------------------------------------------------------------------------
\* Properties of the key handlers

\* The lower-case letter of a letter key.
LowerOfKey(key) == LowerCase[CHOOSE i \in 1..26 : key \in {UpperCase[i], LowerCase[i]}]

\* The grid but for one slot, given by its 0-based row and column.
SameButSlot(g, h, row, col) ==
    /\ Len(h) = Len(g)
    /\ \A r \in 1..Len(g) :
          /\ Len(h[r]) = Len(g[r])
          /\ \A c \in 1..Len(g[r]) : (r # row + 1 \/ c # col + 1) => h[r][c] = g[r][c]

\* C14: while a submitGuess waits at its await no other handler runs: the
\* only step is its own continuation, which finds the row, the cursor and
\* the attempt index as it read them; the attempt index changes only in
\* such a continuation, by one, and the guess evaluated there is what the
\* row holds.
C14_HandlersDoNotInterleave ==
    /\ [](pc = "validating" =>
             /\ pending.row = currentRow
             /\ currentCol = Cols
             /\ pending.guess = Join(grid[currentRow + 1]))
    /\ [][pc = "validating" => SubmitFinishes]_vars
    /\ [][(Initialised /\ currentRow' # currentRow) =>
             /\ SubmitFinishes
             /\ currentRow' = currentRow + 1
             /\ evaluations' = evaluations + 1
             /\ evalGuess' = Join(grid'[currentRow + 1])
             /\ evalGuess' = pending.guess]_vars

\* A submit waiting at its await on the third row.
C14_Witness == pc = "validating" /\ pending.row = 2 /\ Len(pending.guess) = Cols

\* C15: a letter key, with the cursor below Cols and the attempt index
\* below Rows, writes the lower-cased letter into the slot at the cursor and
\* moves the cursor on by one; Backspace, with the cursor above 0, moves the
\* cursor back by one and empties that slot; otherwise either changes
\* nothing of the game state; neither ever changes the target, the attempt
\* index or another slot.
C15_AddAndRemoveLetter ==
    [][/\ \A key \in LetterKeys :
             addLetter(key) =>
                 /\ UNCHANGED <<targetWord, currentRow>>
                 /\ IF currentCol < Cols /\ currentRow < Rows
                    THEN /\ currentCol' = currentCol + 1
                         /\ grid'[currentRow + 1][currentCol + 1] = LowerOfKey(key)
                         /\ SameButSlot(grid, grid', currentRow, currentCol)
                    ELSE UNCHANGED <<grid, currentCol>>
       /\ removeLetter =>
             /\ UNCHANGED <<targetWord, currentRow>>
             /\ IF currentCol > 0
                THEN /\ currentCol' = currentCol - 1
                     /\ grid'[currentRow + 1][currentCol] = Empty
                     /\ SameButSlot(grid, grid', currentRow, currentCol - 1)
                ELSE UNCHANGED <<grid, currentCol>>]_vars

\* Letters typed into the second row, the first one submitted.
C15_Witness ==
    /\ listening /\ pc = "idle"
    /\ currentRow = 1 /\ currentCol = 3
    /\ \A c \in 1..3 : grid[2][c] \in {LowerCase[i] : i \in 1..26}
    /\ \A c \in 4..Cols : grid[2][c] = Empty

\* C16: at most Rows guesses are evaluated; there are as many evaluations
\* as submitted rows; a submit that is rejected, as incomplete or as no valid
\* word, leaves the attempt index and the number of evaluations as they are;
\* and the session is lost only with Rows evaluations, every row a valid
\* word that is not the target.
C16_SixGuesses ==
    /\ [](/\ evaluations <= Rows
          /\ Initialised => evaluations = Cardinality(SubmittedRows)
          /\ Lost =>
                /\ evaluations = Rows
                /\ currentRow = Rows
                /\ \A r \in 1..Rows : Acceptable(Join(grid[r])) /\ Join(grid[r]) # targetWord)
    /\ [][(SubmitIncomplete \/ (SubmitFinishes /\ ~Acceptable(pending.guess))) =>
             UNCHANGED <<currentRow, evaluations, listening>>]_vars

\* The session lost after Rows evaluations.
C16_Witness == Lost /\ evaluations = Rows /\ ~listening

---------------------------------------------------------------------------
\* C17: evaluating a guess identical to the target, both of the configured
\* length, gives a result of that length in which every position is correct.
C17_IdenticalGuessAllCorrect ==
    (Evaluated /\ evalGuess = evalTarget) =>
        /\ Len(evalResult) = WordLength
        /\ \A i \in Positions : evalResult[i] = "correct"

C17_Witness ==
    /\ Evaluated
    /\ evalGuess = evalTarget
    /\ evalGuess = <<"a", "e", "a", "r", "e">>
    /\ evalResult = [i \in Positions |-> "correct"]

\* C18: evaluating a guess that has no letter in common with the target,
\* both of the configured length, gives a result of that length in which
\* every position is wrong.
C18_DisjointGuessAllWrong ==
    (Evaluated /\ LettersOf(evalGuess) \cap LettersOf(evalTarget) = {}) =>
        /\ Len(evalResult) = WordLength
        /\ \A i \in Positions : evalResult[i] = "wrong"

C18_Witness ==
    /\ Evaluated
    /\ evalGuess = <<"a", "e", "a", "a", "e">>
    /\ evalTarget = <<"r", "r", "r", "r", "r">>
    /\ evalResult = [i \in Positions |-> "wrong"]

---------------------------------------------------------------------------
\* The target came from the remote endpoint and is no fallback word.
RemoteTargetOutsideList == remoteResult = "word" /\ ~Acceptable(targetWord)

\* C19: with a remote target that is no fallback word the session is never
\* won; a submitted guess equal to the target is rejected as an invalid word
\* (the row shakes, nothing is evaluated, no attempt is used, keys are still
\* heard); and when the session has ended, it is lost.
C19_RemoteTargetNeverWon ==
    /\ [](RemoteTargetOutsideList =>
              /\ ~Won
              /\ (Initialised /\ ~listening) => Lost)
    /\ [][(RemoteTargetOutsideList /\ SubmitFinishes /\ pending.guess = targetWord) =>
              /\ message' = InvalidMessage
              /\ shake' = {<<currentRow, c>> : c \in 0..(Cols - 1)}
              /\ listening'
              /\ UNCHANGED <<gameVars, revealed, evalVars, evaluations>>]_vars

\* The target typed on the last row and rejected.
C19_Witness ==
    /\ RemoteTargetOutsideList
    /\ currentRow = Rows - 1
    /\ RowText = targetWord
    /\ message = InvalidMessage
    /\ listening

LowerLetters == {LowerCase[i] : i \in 1..26}

\* C20: while the session is neither won nor lost, the slots of the current
\* row below the cursor hold one lower-case letter each and those from the
\* cursor on are empty, every row above the attempt index is empty, and
\* every row below the attempt index is filled; a row below the attempt
\* index is never changed by any step.
C20_GridAgreesWithCursor ==
    /\ []((Initialised /\ ~Won /\ ~Lost) =>
              /\ Len(grid) = Rows
              /\ \A r \in 0..(Rows - 1) :
                     /\ Len(grid[r + 1]) = Cols
                     /\ r < currentRow => Filled(grid[r + 1])
                     /\ r > currentRow => grid[r + 1] = [c \in 1..Cols |-> Empty]
                     /\ r = currentRow =>
                            \A c \in 0..(Cols - 1) :
                                IF c < currentCol
                                THEN grid[r + 1][c + 1] \in LowerLetters
                                ELSE grid[r + 1][c + 1] = Empty)
    /\ [][Initialised =>
              \A r \in 0..(currentRow - 1) : grid'[r + 1] = grid[r + 1]]_vars

\* Two rows submitted, the third partly typed, the rest untouched.
C20_Witness ==
    /\ Initialised /\ listening
    /\ currentRow = 2 /\ currentCol = 3
    /\ Filled(grid[1]) /\ Filled(grid[2])
    /\ \A c \in 1..3 : grid[3][c] \in LowerLetters
    /\ grid[3][4] = Empty /\ grid[3][5] = Empty
    /\ \A r \in 4..Rows : grid[r] = [c \in 1..Cols |-> Empty]

====
